---- MODULE Spec2Model ----
(***************************************************************************)
(* Vault and time-locked reward accounting of save-to-grow.                *)
(*                                                                         *)
(* Three stores are modelled:                                              *)
(*   - the ledger: one vault account and one reward box per owner (the     *)
(*     Anchor program, whose source is not in the repository snapshot, so  *)
(*     its three operations follow the specification) and the treasury     *)
(*     wallet the lock route pays rewards from;                            *)
(*   - the registry: the box_locks table written by the lock route;        *)
(*   - the browser component's React state per owner: the cached vault     *)
(*     balance and the cached list of active locks that its handlers       *)
(*     validate against.                                                   *)
(*                                                                         *)
(* Units.  Amounts typed into the component are SOL; the model keeps vault *)
(* balances and lock amounts as whole SOL (the ledger value is that number *)
(* times LAMPORTS_PER_SOL).  Rewards and the treasury are kept in lamports,*)
(* i.e. reward_amount is stored already multiplied by LAMPORTS_PER_SOL and *)
(* floored, which is the only form in which the route uses it for money.   *)
(***************************************************************************)
EXTENDS Integers, Sequences, FiniteSets, Bags, TLC

\* ------------------------------------------------------------------ bounds
MaxTime == 1
MaxLocks == 2
NumReqs == 2
MaxBalance == 2000
MaxAccrual == 1

Owners == {"alice", "bob"}
DepositAmounts == {2000}
WithdrawAmounts == {500, 600}
LockAmounts == {1500}
Durations == {1}

\* small amounts typed into the deposit / withdraw field, and the owner typing
SmallAmounts == {1, 4}
LedgerOwners == {"alice"}

\* what the body of a create request sent straight to the route may carry
PostAmounts == {0, 1000, 1500}
PostDurations == {0, 1, 24}

LockIds == 1..MaxLocks

\* ------------------------------------------------------- program constants
\* Variant: the rate of the earlier version of the route, 0.05.
ApyPercent_old == 5

ApyPercent == 10
HoursPerYear == 8760
LAMPORTS_PER_SOL == 1000000000

VARIABLES
    now,          \* server / browser clock, in hours
    vault,        \* ledger: owner -> [exists, balance]
    rewardBox,    \* ledger: owner -> [exists, balance], the accrual points
    treasury,     \* ledger: lamports held by the admin (treasury) wallet
    locks,        \* registry: box_locks rows, the row id is the index
    balance,      \* component state: cached vault balance per owner
    activeLocks,  \* component state: cached list of active locks per owner
    locksFetch,   \* component: a fetchLocks call is in flight for the owner
    reqs,         \* bag of the unlock requests the route is serving
    response,     \* the last response the route returned
    paid,         \* ledger history: treasury transfers issued per lock id
    settled,      \* history: lock ids for which the route answered success
    rpc,          \* one retryRPC call: its arguments, position and history
    nftUri,       \* token metadata: owner -> the uri of the owner's token
    wallet,       \* user_wallets row of the owner, and how far a deletion is
    handler       \* one deposit / withdraw handler followed await by await

vars == <<now, vault, rewardBox, treasury, locks, balance, activeLocks,
          locksFetch, reqs, response, paid, settled, rpc, nftUri,
          wallet, handler>>

\* ------------------------------------------------------------- pure helpers
RECURSIVE SumAmounts(_, _)
SumAmounts(rows, ids) ==
    IF ids = {} THEN 0
    ELSE LET i == CHOOSE x \in ids : TRUE
         IN rows[i].amount + SumAmounts(rows, ids \ {i})

\* floor((q * d + r) * scale / d) for scale a power of ten, by long division,
\* so that no intermediate value leaves the 32-bit range
RECURSIVE LongDiv(_, _, _, _)
LongDiv(q, r, scale, d) ==
    IF scale = 1 THEN q
    ELSE LongDiv(q * 10 + (r * 10) \div d, (r * 10) % d, scale \div 10, d)

\* route.ts create: reward = amount * apy * (durationHours / 8760), kept as
\* Math.floor(reward * LAMPORTS_PER_SOL) lamports (route.ts unlock, line 72)
RewardLamports(amount, durationHours) ==
    LET n == amount * durationHours * ApyPercent
    IN LongDiv(n \div HoursPerYear, n % HoursPerYear,
               LAMPORTS_PER_SOL \div 100, HoursPerYear)

\* what the treasury wallet holds at the start: nothing, or exactly one or
\* two rewards of the largest lock
TreasuryFunds ==
    {0, RewardLamports(1500, 1), 2 * RewardLamports(1500, 1)}

\* ----------------------------------------------------------------- registry
\* route.ts create: the row inserted into box_locks
NewLock(userId, amount, durationHours, t) ==
    [user_id |-> userId, amount |-> amount, duration_hours |-> durationHours,
     reward_amount |-> RewardLamports(amount, durationHours),
     ends_at |-> t + durationHours, status |-> "active"]

\* ids of the owner's rows whose status is active
ActiveIds(rows, o) ==
    {i \in 1..Len(rows) : rows[i].user_id = o /\ rows[i].status = "active"}

\* Variant: order('ends_at', { ascending: false }).
OrderAscending_desc(rows, a, b) == rows[a].ends_at >= rows[b].ends_at

\* order('ends_at', { ascending: true }): row a may come before row b
OrderAscending(rows, a, b) == rows[a].ends_at <= rows[b].ends_at

\* fetchLocks: select * from box_locks where user_id = o and status = 'active'
\* order by ends_at ascending.  The set of the lists the query may return:
\* rows with equal ends_at come in either order.
SelectActive(rows, o) ==
    LET ids == ActiveIds(rows, o)
        n   == Cardinality(ids)
        orders == {g \in [1..n -> ids] :
                      /\ \A j, k \in 1..n : j # k => g[j] # g[k]
                      /\ \A k \in 1..(n - 1) :
                             OrderAscending(rows, g[k], g[k + 1])}
    IN {[k \in 1..n |-> [id |-> g[k], amount |-> rows[g[k]].amount,
                         ends_at |-> rows[g[k]].ends_at]] : g \in orders}

\* Variant: selection by id alone, without the user_id filter.
SelectLock_byId(rows, lockId, userId) ==
    {i \in 1..Len(rows) : i = lockId /\ rows[i].status # "deleted"}

\* route.ts unlock: select ... eq('id', lockId).eq('user_id', userId).single()
SelectLock(rows, lockId, userId) ==
    {i \in 1..Len(rows) :
        i = lockId /\ rows[i].user_id = userId /\ rows[i].status # "deleted"}

\* route.ts unlock: lockData.status !== 'active' throws
IsActive(lockData) == lockData.status = "active"

\* Variant: the instant of maturity itself counts as not yet over.
IsTimeOver_strict(t, lockData) == t > lockData.ends_at

\* route.ts unlock: isTimeOver = new Date() >= new Date(lockData.ends_at)
IsTimeOver(t, lockData) == t >= lockData.ends_at

\* Variant: the force flag read with the wrong polarity.
StillLocked_forced(isTimeOver, force) == ~isTimeOver /\ force

\* route.ts unlock: if (!isTimeOver && !force) throw
StillLocked(isTimeOver, force) == ~isTimeOver /\ ~force

\* Variant: the reward recomputed at settlement from the older rate.
FinalRewardAmount_recomputed(lockData, isTimeOver, force) ==
    IF ~isTimeOver /\ force THEN 0
    ELSE (lockData.reward_amount * ApyPercent_old) \div ApyPercent

\* route.ts unlock: finalRewardAmount
FinalRewardAmount(lockData, isTimeOver, force) ==
    IF ~isTimeOver /\ force THEN 0 ELSE lockData.reward_amount

\* Variant: the comparison reversed.
TreasuryShort_reversed(adminBalance, rewardLamports) ==
    adminBalance > rewardLamports

\* route.ts unlock: adminBalance < rewardLamports
TreasuryShort(adminBalance, rewardLamports) == adminBalance < rewardLamports

\* Variant: the update without its .eq('id', lockId) filter.
UpdateClaimed_allActive(rows, lockId) ==
    [i \in 1..Len(rows) |->
        IF rows[i].status # "deleted"
        THEN [rows[i] EXCEPT !.status = "claimed"] ELSE rows[i]]

\* Variant: the update also clears reward_amount.
UpdateClaimed_payout(rows, lockId) ==
    [i \in 1..Len(rows) |->
        IF i = lockId /\ rows[i].status # "deleted"
        THEN [rows[i] EXCEPT !.status = "claimed", !.reward_amount = 0]
        ELSE rows[i]]

\* route.ts unlock: update({ status: 'claimed' }).eq('id', lockId); it
\* matches no row when the row has been deleted
UpdateClaimed(rows, lockId) ==
    [i \in 1..Len(rows) |->
        IF i = lockId /\ rows[i].status # "deleted"
        THEN [rows[i] EXCEPT !.status = "claimed"] ELSE rows[i]]

\* deleteWallet: from('box_locks').delete().eq('user_id', session.user.id).
\* A deleted row keeps its place in the sequence, so that the ids of the
\* other rows stay what they were; no select and no update matches it.
DeleteOwnerLocks(rows, o) ==
    [i \in 1..Len(rows) |->
        IF rows[i].user_id = o
        THEN [rows[i] EXCEPT !.status = "deleted"] ELSE rows[i]]

\* ---------------------------------------------------------- component state
\* solVaultBalance: the cached vault balance, in SOL
SolVaultBalance(o) == balance[o]

\* totalLockedAmount: activeLocks.reduce((sum, lock) => sum + lock.amount, 0)
RECURSIVE SumCached(_)
SumCached(rows) ==
    IF rows = <<>> THEN 0
    ELSE Head(rows).amount + SumCached(Tail(rows))

TotalLockedAmount(o) == SumCached(activeLocks[o])

\* Variant: the locked total is left out of the subtraction.
AvailableToWithdraw_balanceOnly(o) == SolVaultBalance(o)

AvailableToWithdraw(o) == SolVaultBalance(o) - TotalLockedAmount(o)

\* --------------------------------------------------------------- the token
\* Variant: the threshold compared strictly.
TargetUri_strict(currentBal) ==
    IF currentBal > 5 THEN "legendary"
    ELSE IF currentBal > 0 THEN "growing" ELSE "default"

\* updateNftMetadata: targetUri, chosen among METADATA_URIS
TargetUri(currentBal) ==
    IF currentBal >= 5 THEN "legendary"
    ELSE IF currentBal > 0 THEN "growing" ELSE "default"

\* updateNftMetadata, called when a token was minted (nftMintAddress): the
\* uri is rewritten when it differs; a failure is swallowed (catch (e) {})
UpdateNftMetadata(uris, o, currentBal, ok) ==
    IF uris[o] # "none" /\ ok
    THEN [uris EXCEPT ![o] = TargetUri(currentBal)]
    ELSE uris

\* gifData: the label shown for the cached vault balance
GifData(o) ==
    IF SolVaultBalance(o) >= 5 THEN "Legendary"
    ELSE IF SolVaultBalance(o) > 0 THEN "Growing" ELSE "Sprout"

\* ------------------------------------------------- what the stores really hold
TotalActive(o) == SumAmounts(locks, ActiveIds(locks, o))

AvailableBalance(o) == vault[o].balance - TotalActive(o)

\* what belongs to one owner: the vault account, the reward box and the rows
\* of box_locks whose user_id is the owner
OwnerRows(rows, o) ==
    [i \in {j \in 1..Len(rows) : rows[j].user_id = o} |-> rows[i]]

OwnerState(o) == <<vault[o], rewardBox[o], OwnerRows(locks, o)>>

\* lamports the treasury has paid for locks of owners other than o
RECURSIVE PaidToOthers(_, _)
PaidToOthers(o, ids) ==
    IF ids = {} THEN 0
    ELSE LET i == CHOOSE x \in ids : TRUE
         IN (IF locks[i].user_id # o
             THEN paid[i] * locks[i].reward_amount ELSE 0)
            + PaidToOthers(o, ids \ {i})

\* ----------------------------------------------------------------- the ledger
\* The vault program (initialize / deposit / withdraw).  It knows nothing of
\* locks: withdraw only requires amount <= balance.  Each operation is one
\* transaction on both accounts of the owner, the vault and the reward box.
\* Variant: initialize accepted on an account that exists.
LedgerCanInitialize_always(v, o) == TRUE

LedgerCanInitialize(v, o) == ~v[o].exists

\* the account created by initialize, for the vault and for the reward box
LedgerInitialize(v, o) == [v EXCEPT ![o] = [exists |-> TRUE, balance |-> 0]]

LedgerCanDeposit(v, o, amount) == v[o].exists /\ amount > 0

\* Variant: the balance is set to the amount instead of raised by it.
LedgerDeposit_set(v, o, amount) == [v EXCEPT ![o].balance = amount]

LedgerDeposit(v, o, amount) == [v EXCEPT ![o].balance = @ + amount]

\* the accrual points an operation may add to the reward box: a function of
\* the amount and of the time since the last operation, never negative
AccrualPoints(r, o) == {p \in 0..MaxAccrual : r[o].balance + p <= MaxAccrual}

LedgerAccrue(r, o, points) == [r EXCEPT ![o].balance = @ + points]

LedgerCanWithdraw(v, o, amount) == v[o].exists /\ amount <= v[o].balance

LedgerWithdraw(v, o, amount) == [v EXCEPT ![o].balance = @ - amount]

\* ------------------------------------------------------------------- requests
\* an unlock request in service: where the route is in serving it, the lock
\* it loaded, and its locals isTimeOver and finalRewardAmount
Request(pc, lockId, isTimeOver, reward) ==
    [pc |-> pc, lockId |-> lockId, isTimeOver |-> isTimeOver, reward |-> reward]

Serving(pc) == {q \in BagToSet(reqs) : q.pc = pc}

\* the request q moves on to pc
Advance(q, pc) ==
    (reqs (-) SetToBag({q})) (+) SetToBag({[q EXCEPT !.pc = pc]})

\* the request q has been answered
Finish(q) == reqs (-) SetToBag({q})

NoResponse == [kind |-> "none", reward |-> 0]

\* the answers with status 500: the errors the route throws or catches
ErrorKinds ==
    {"InsertFailed", "NotFound", "AlreadySettled", "StillLocked",
     "TreasuryInsufficient", "TransferFailed"}

\* the JSON the route answers a request with: {success, reward} or {error}
Respond(kind, reward) == [kind |-> kind, reward |-> reward]

\* ------------------------------------------------------------- retryRPC
\* retryRPC(fn, retries = 3, delay = 1000)
DefaultRetries == 3
DefaultDelay == 1000

\* what one invocation of fn does: it resolves, it rejects with an error
\* whose JSON text holds "429", or it rejects with any other error
Outcomes == {"ok", "429", "other"}

\* Variant: every error is taken for rate limiting.
Includes429_any(outcome) == outcome # "ok"

\* JSON.stringify(error).includes("429")
Includes429(outcome) == outcome = "429"

RpcIdle ==
    [pc |-> "idle", retries |-> 0, delay |-> 0, retries0 |-> 0,
     delay0 |-> 0, calls |-> 0, slept |-> <<>>, errors |-> <<>>]

\* a call retryRPC(fn) with the default arguments has just been made
RpcStart(retries, delay) ==
    [RpcIdle EXCEPT !.pc = "call", !.retries = retries, !.delay = delay,
                    !.retries0 = retries, !.delay0 = delay]

\* ------------------------------------------------- the handler, step by step
\* initializeVault, deposit and withdraw followed await by await: the read
\* of the wallet balance through retryRPC, the program call, the second read
\* through retryRPC, then the refresh.  writes counts the program calls the
\* handler has submitted, readCalls the invocations of getBalance made for
\* it, applied tells whether the ledger applied its write, and report is
\* what the user is told: nothing yet, no error, or the alert of the catch.
HandlerIdle ==
    [pc |-> "idle", kind |-> "none", o |-> "none", val |-> 0, writes |-> 0,
     readCalls |-> 0, applied |-> FALSE, report |-> "none"]

HandlerKinds == {"initialize", "deposit", "withdraw"}

\* how a submitted program call ends: applied and confirmed; applied, but
\* the confirmation never arrives and rpc() throws; or refused and thrown
WriteOutcomes == {"confirmed", "lost", "rejected"}

\* the ledger's own condition on the write of the handler h
LedgerCanApply(v, h) ==
    CASE h.kind = "initialize" -> LedgerCanInitialize(v, h.o)
      [] h.kind = "deposit" ->
             LedgerCanDeposit(v, h.o, h.val) /\ v[h.o].balance + h.val <= MaxBalance
      [] h.kind = "withdraw" -> LedgerCanWithdraw(v, h.o, h.val)
      [] OTHER -> FALSE

\* the vault accounts after the write of the handler h
LedgerApply(v, h) ==
    CASE h.kind = "initialize" -> LedgerInitialize(v, h.o)
      [] h.kind = "deposit" -> LedgerDeposit(v, h.o, h.val)
      [] h.kind = "withdraw" -> LedgerWithdraw(v, h.o, h.val)
      [] OTHER -> v

Init ==
    /\ now = 0
    /\ vault = [o \in Owners |-> [exists |-> FALSE, balance |-> 0]]
    /\ rewardBox = [o \in Owners |-> [exists |-> FALSE, balance |-> 0]]
    /\ treasury \in TreasuryFunds
    /\ locks = <<>>
    /\ balance = [o \in Owners |-> 0]
    /\ activeLocks = [o \in Owners |-> <<>>]
    /\ locksFetch = [o \in Owners |-> FALSE]
    /\ reqs = EmptyBag
    /\ response = NoResponse
    /\ paid = [l \in LockIds |-> 0]
    /\ settled = {}
    /\ rpc = RpcIdle
    /\ nftUri = [o \in Owners |-> "none"]
    /\ wallet = [o \in Owners |-> "present"]
    /\ handler = HandlerIdle

\* time passes
Tick ==
    /\ now < MaxTime
    /\ now' = now + 1
    /\ UNCHANGED <<vault, rewardBox, treasury, locks, balance, activeLocks,
                   locksFetch, reqs, response, paid, settled, rpc, nftUri,
                   wallet, handler>>

\* initializeVault: the program creates the vault and the reward box, then
\* fetchVault is awaited; when the program refuses, the handler only alerts
InitializeVault(o) ==
    /\ wallet[o] # "deleted"
    /\ IF LedgerCanInitialize(vault, o)
       THEN /\ vault' = LedgerInitialize(vault, o)
            /\ rewardBox' = LedgerInitialize(rewardBox, o)
            /\ balance' = [balance EXCEPT ![o] = vault'[o].balance]
            /\ nftUri' = [nftUri EXCEPT ![o] = "default"]
       ELSE UNCHANGED <<vault, rewardBox, balance, nftUri>>
    /\ UNCHANGED <<now, treasury, locks, activeLocks, locksFetch, reqs,
                   response, paid, settled, rpc,
                   wallet, handler>>

\* deposit: val > 0, the program adds it, then fetchVault is awaited and the
\* token's uri is updated for the balance the handler computes
Deposit(o, val) ==
    /\ wallet[o] # "deleted"
    /\ val > 0
    /\ LedgerCanDeposit(vault, o, val)
    /\ vault[o].balance + val <= MaxBalance
    /\ vault' = LedgerDeposit(vault, o, val)
    /\ \E ok \in BOOLEAN :
           nftUri' = UpdateNftMetadata(nftUri, o, SolVaultBalance(o) + val, ok)
    /\ \E p \in AccrualPoints(rewardBox, o) :
           rewardBox' = LedgerAccrue(rewardBox, o, p)
    /\ balance' = [balance EXCEPT ![o] = vault'[o].balance]
    /\ UNCHANGED <<now, treasury, locks, activeLocks, locksFetch, reqs,
                   response, paid, settled, rpc,
                   wallet, handler>>

\* withdraw: val > 0 and val <= availableToWithdraw (both read from the
\* component's state), then the program's own check, then fetchVault is awaited
Withdraw(o, val) ==
    /\ wallet[o] # "deleted"
    /\ val > 0
    /\ ~(val > AvailableToWithdraw(o))
    /\ LedgerCanWithdraw(vault, o, val)
    /\ vault' = LedgerWithdraw(vault, o, val)
    /\ \E ok \in BOOLEAN :
           nftUri' = UpdateNftMetadata(
                         nftUri, o,
                         IF SolVaultBalance(o) - val > 0
                         THEN SolVaultBalance(o) - val ELSE 0, ok)
    /\ \E p \in AccrualPoints(rewardBox, o) :
           rewardBox' = LedgerAccrue(rewardBox, o, p)
    /\ balance' = [balance EXCEPT ![o] = vault'[o].balance]
    /\ UNCHANGED <<now, treasury, locks, activeLocks, locksFetch, reqs,
                   response, paid, settled, rpc,
                   wallet, handler>>

\* POST /api/lock {action: 'create'}: the row is inserted as requested; the
\* owner's realtime subscription on box_locks then starts a fetchLocks.  When
\* the insert returns an error the route throws it and answers the error.
PostCreate(userId, amount, durationHours, ok) ==
    /\ Len(locks) < MaxLocks
    /\ IF ok
       THEN /\ locks' = Append(locks,
                               NewLock(userId, amount, durationHours, now))
            /\ locksFetch' = [locksFetch EXCEPT ![userId] = TRUE]
            /\ response' = Respond("created", 0)
       ELSE /\ response' = Respond("InsertFailed", 0)
            /\ UNCHANGED <<locks, locksFetch>>
    /\ UNCHANGED <<now, vault, rewardBox, treasury, balance, activeLocks,
                   reqs, paid, settled, rpc, nftUri,
                   wallet, handler>>

\* handleLock: the component's checks, then the create request; fetchLocks is
\* called without await, so the handler ends before the list is refreshed
HandleLock(o, val, durationHours, ok) ==
    /\ val > 0
    /\ ~(val > AvailableToWithdraw(o))
    /\ PostCreate(o, val, durationHours, ok)

\* a fetchLocks call completes: setActiveLocks(data) when data came back
FetchLocks(o, ok) ==
    /\ locksFetch[o]
    /\ locksFetch' = [locksFetch EXCEPT ![o] = FALSE]
    /\ \E data \in SelectActive(locks, o) :
           activeLocks' = [activeLocks EXCEPT ![o] = IF ok THEN data ELSE @]
    /\ UNCHANGED <<now, vault, rewardBox, treasury, locks, balance, reqs,
                   response, paid, settled, rpc, nftUri,
                   wallet, handler>>

\* POST /api/lock {action: 'unlock'}, up to its first ledger call: the row is
\* selected by id and user_id, its status and end time are checked and the
\* reward to pay is fixed.  userId, lockId and force are whatever the body says.
UnlockLoad(userId, lockId, force) ==
    /\ BagCardinality(reqs) < NumReqs
    /\ LET fail(kind) ==
               /\ response' = Respond(kind, 0)
               /\ UNCHANGED reqs
       IN IF SelectLock(locks, lockId, userId) = {} THEN fail("NotFound")
          ELSE LET lockData == locks[lockId]
                   isTimeOver == IsTimeOver(now, lockData)
                   finalRewardAmount ==
                       FinalRewardAmount(lockData, isTimeOver, force)
               IN IF ~IsActive(lockData) THEN fail("AlreadySettled")
                  ELSE IF StillLocked(isTimeOver, force)
                       THEN fail("StillLocked")
                  ELSE /\ reqs' = reqs (+) SetToBag({Request(
                                     IF finalRewardAmount > 0
                                     THEN "balance" ELSE "update",
                                     lockId, isTimeOver, finalRewardAmount)})
                       /\ UNCHANGED response
    /\ UNCHANGED <<now, vault, rewardBox, treasury, locks, balance,
                   activeLocks, locksFetch, paid, settled, rpc, nftUri,
                   wallet, handler>>

\* Variant: after the balance check the route goes straight to the update.
UnlockCheck_skipTransfer(q) ==
    /\ q \in Serving("balance")
    /\ IF TreasuryShort(treasury, q.reward)
       THEN /\ response' = Respond("TreasuryInsufficient", 0)
            /\ reqs' = Finish(q)
       ELSE /\ reqs' = Advance(q, "update")
            /\ UNCHANGED response
    /\ UNCHANGED <<now, vault, rewardBox, treasury, locks, balance,
                   activeLocks, locksFetch, paid, settled, rpc, nftUri,
                   wallet, handler>>

\* unlock, reward > 0: connection.getBalance(adminWallet) and the comparison
UnlockCheck(q) ==
    /\ q \in Serving("balance")
    /\ IF TreasuryShort(treasury, q.reward)
       THEN /\ response' = Respond("TreasuryInsufficient", 0)
            /\ reqs' = Finish(q)
       ELSE /\ reqs' = Advance(q, "transfer")
            /\ UNCHANGED response
    /\ UNCHANGED <<now, vault, rewardBox, treasury, locks, balance,
                   activeLocks, locksFetch, paid, settled, rpc, nftUri,
                   wallet, handler>>

\* unlock, reward > 0: sendAndConfirmTransaction of the treasury transfer.
\* The ledger refuses it when the treasury no longer holds the amount.  When
\* it is applied, the call returns if the confirmation arrives and throws if
\* the confirmation is lost, which the route answers as an error.
UnlockTransfer(q, confirmed) ==
    /\ q \in Serving("transfer")
    /\ IF treasury >= q.reward
       THEN /\ treasury' = treasury - q.reward
            /\ paid' = [paid EXCEPT ![q.lockId] = @ + 1]
            /\ IF confirmed
               THEN /\ reqs' = Advance(q, "update")
                    /\ UNCHANGED response
               ELSE /\ response' = Respond("TransferFailed", 0)
                    /\ reqs' = Finish(q)
       ELSE /\ response' = Respond("TransferFailed", 0)
            /\ reqs' = Finish(q)
            /\ UNCHANGED <<treasury, paid>>
    /\ UNCHANGED <<now, vault, rewardBox, locks, balance, activeLocks,
                   locksFetch, settled, rpc, nftUri,
                   wallet, handler>>

\* unlock: the status update, whose result the route does not look at, and the
\* success response; handleUnlock then calls fetchLocks without await
UnlockUpdate(q, ok) ==
    /\ q \in Serving("update")
    /\ locks' = IF ok THEN UpdateClaimed(locks, q.lockId) ELSE locks
    /\ response' = Respond("ok", q.reward)
    /\ reqs' = Finish(q)
    /\ locksFetch' = [locksFetch EXCEPT ![locks[q.lockId].user_id] = TRUE]
    /\ settled' = settled \cup {q.lockId}
    /\ UNCHANGED <<now, vault, rewardBox, treasury, balance, activeLocks,
                   paid, rpc, nftUri,
                   wallet, handler>>

\* deleteWallet, up to the delete on box_locks: every row of the owner is
\* removed, unless the delete returns an error, which the handler never reads
DeleteLocks(o, ok) ==
    /\ wallet[o] = "present"
    /\ wallet' = [wallet EXCEPT ![o] = "deleting"]
    /\ locks' = IF ok THEN DeleteOwnerLocks(locks, o) ELSE locks
    /\ UNCHANGED <<now, vault, rewardBox, treasury, balance, activeLocks,
                   locksFetch, reqs, response, paid, settled, rpc, nftUri,
                   handler>>

\* deleteWallet, from the delete on user_wallets on: the record is removed,
\* unless the delete returns an error (again never read), and the component
\* forgets the wallet, the balance and the list of locks
DeleteWalletRow(o, ok) ==
    /\ wallet[o] = "deleting"
    /\ wallet' = [wallet EXCEPT ![o] = IF ok THEN "deleted" ELSE "present"]
    /\ balance' = [balance EXCEPT ![o] = 0]
    /\ activeLocks' = [activeLocks EXCEPT ![o] = <<>>]
    /\ UNCHANGED <<now, vault, rewardBox, treasury, locks, locksFetch, reqs,
                   response, paid, settled, rpc, nftUri, handler>>

\* a handler begins: its guards, then preBalance = await retryRPC(getBalance)
HandlerStart(o, kind, val) ==
    /\ handler.pc \in {"idle", "done"}
    /\ rpc.pc = "idle"
    /\ wallet[o] # "deleted"
    /\ kind \in HandlerKinds
    /\ IF kind = "initialize" THEN val = 0 ELSE val > 0
    /\ kind = "withdraw" => ~(val > AvailableToWithdraw(o))
    /\ handler' = [HandlerIdle EXCEPT !.pc = "pre", !.kind = kind, !.o = o,
                                      !.val = val]
    /\ rpc' = RpcStart(DefaultRetries, DefaultDelay)
    /\ UNCHANGED <<now, vault, rewardBox, treasury, locks, balance, activeLocks,
                   locksFetch, reqs, response, paid, settled, nftUri, wallet>>

\* the first read has returned or thrown; a throw goes to the catch
HandlerPreRead ==
    /\ handler.pc = "pre"
    /\ rpc.pc \in {"returned", "thrown"}
    /\ handler' = IF rpc.pc = "returned"
                  THEN [handler EXCEPT !.pc = "write",
                                       !.readCalls = @ + rpc.calls]
                  ELSE [handler EXCEPT !.pc = "done", !.report = "error",
                                       !.readCalls = @ + rpc.calls]
    /\ rpc' = RpcIdle
    /\ UNCHANGED <<now, vault, rewardBox, treasury, locks, balance, activeLocks,
                   locksFetch, reqs, response, paid, settled, nftUri, wallet>>

\* Variant: the program call wrapped like a read, submitted again when its
\* confirmation did not arrive.
HandlerWrite_retried(outcome) ==
    /\ handler.pc = "write"
    /\ rpc.pc = "idle"
    /\ outcome # "rejected" => LedgerCanApply(vault, handler)
    /\ vault' = IF outcome # "rejected"
                THEN LedgerApply(vault, handler) ELSE vault
    /\ IF outcome = "rejected" THEN UNCHANGED rewardBox
       ELSE IF handler.kind = "initialize"
            THEN rewardBox' = LedgerInitialize(rewardBox, handler.o)
            ELSE \E p \in AccrualPoints(rewardBox, handler.o) :
                     rewardBox' = LedgerAccrue(rewardBox, handler.o, p)
    /\ nftUri' = IF handler.kind = "initialize" /\ outcome = "confirmed"
                 THEN [nftUri EXCEPT ![handler.o] = "default"] ELSE nftUri
    /\ handler' = [handler EXCEPT
                       !.writes = @ + 1,
                       !.applied = @ \/ outcome # "rejected",
                       !.pc = IF outcome = "confirmed" THEN "post"
                              ELSE IF outcome = "lost" /\ handler.writes < 1
                                   THEN "write" ELSE "done",
                       !.report = IF outcome = "confirmed" THEN @
                                  ELSE IF outcome = "lost" /\ handler.writes < 1
                                       THEN @ ELSE "error"]
    /\ rpc' = IF outcome = "confirmed"
              THEN RpcStart(DefaultRetries, DefaultDelay) ELSE rpc
    /\ UNCHANGED <<now, treasury, locks, balance, activeLocks, locksFetch,
                   reqs, response, paid, settled, wallet>>

\* await program.methods.<kind>(...).rpc(): the call is made directly, outside
\* retryRPC.  The ledger applies it or refuses it; rpc() returns when the
\* confirmation arrives and throws otherwise, and the catch alerts an error.
\* initializeVault then mints the token before its second read.
HandlerWrite(outcome) ==
    /\ handler.pc = "write"
    /\ rpc.pc = "idle"
    /\ outcome # "rejected" => LedgerCanApply(vault, handler)
    /\ vault' = IF outcome # "rejected"
                THEN LedgerApply(vault, handler) ELSE vault
    /\ IF outcome = "rejected" THEN UNCHANGED rewardBox
       ELSE IF handler.kind = "initialize"
            THEN rewardBox' = LedgerInitialize(rewardBox, handler.o)
            ELSE \E p \in AccrualPoints(rewardBox, handler.o) :
                     rewardBox' = LedgerAccrue(rewardBox, handler.o, p)
    /\ nftUri' = IF handler.kind = "initialize" /\ outcome = "confirmed"
                 THEN [nftUri EXCEPT ![handler.o] = "default"] ELSE nftUri
    /\ handler' = [handler EXCEPT
                       !.writes = @ + 1,
                       !.applied = outcome # "rejected",
                       !.pc = IF outcome = "confirmed" THEN "post" ELSE "done",
                       !.report = IF outcome = "confirmed" THEN @ ELSE "error"]
    /\ rpc' = IF outcome = "confirmed"
              THEN RpcStart(DefaultRetries, DefaultDelay) ELSE rpc
    /\ UNCHANGED <<now, treasury, locks, balance, activeLocks, locksFetch,
                   reqs, response, paid, settled, wallet>>

\* the second read has returned or thrown.  When it returned, fetchVault is
\* awaited and the token's uri is updated; when it threw, the catch alerts an
\* error and nothing is read again.
HandlerPostRead(ok) ==
    /\ handler.pc = "post"
    /\ rpc.pc \in {"returned", "thrown"}
    /\ IF rpc.pc = "returned"
       THEN /\ handler' = [handler EXCEPT !.pc = "done", !.report = "ok",
                                          !.readCalls = @ + rpc.calls]
            /\ balance' = [balance EXCEPT ![handler.o] = vault[handler.o].balance]
            /\ nftUri' =
                   CASE handler.kind = "deposit" ->
                            UpdateNftMetadata(
                                nftUri, handler.o,
                                SolVaultBalance(handler.o) + handler.val, ok)
                     [] handler.kind = "withdraw" ->
                            UpdateNftMetadata(
                                nftUri, handler.o,
                                IF SolVaultBalance(handler.o) - handler.val > 0
                                THEN SolVaultBalance(handler.o) - handler.val
                                ELSE 0, ok)
                     [] OTHER -> nftUri
       ELSE /\ handler' = [handler EXCEPT !.pc = "done", !.report = "error",
                                          !.readCalls = @ + rpc.calls]
            /\ UNCHANGED <<balance, nftUri>>
    /\ rpc' = RpcIdle
    /\ UNCHANGED <<now, vault, rewardBox, treasury, locks, activeLocks,
                   locksFetch, reqs, response, paid, settled, wallet>>

\* the frame of the retry wrapper: it touches neither store
RetryFrame ==
    UNCHANGED <<now, vault, rewardBox, treasury, locks, balance, activeLocks,
                locksFetch, reqs, response, paid, settled, nftUri,
                wallet, handler>>

\* a caller invokes retryRPC(fn, retries, delay)
RetryStart(retries, delay) ==
    /\ rpc.pc = "idle"
    /\ rpc' = [RpcIdle EXCEPT !.pc = "call", !.retries = retries,
                              !.delay = delay, !.retries0 = retries,
                              !.delay0 = delay]
    /\ RetryFrame

\* try { return await fn() } catch (error) { if (retries > 0 && ...429) ...
\* throw error }
RetryCall(outcome) ==
    /\ rpc.pc = "call"
    /\ rpc' = IF outcome = "ok"
              THEN [rpc EXCEPT !.pc = "returned", !.calls = @ + 1]
              ELSE [rpc EXCEPT !.calls = @ + 1,
                               !.errors = Append(@, outcome),
                               !.pc = IF rpc.retries > 0 /\ Includes429(outcome)
                                      THEN "sleep" ELSE "thrown"]
    /\ RetryFrame

\* Variant: the recursive call made with delay instead of delay * 2.
RetrySleep_sameDelay ==
    /\ rpc.pc = "sleep"
    /\ rpc' = [rpc EXCEPT !.pc = "call", !.slept = Append(@, rpc.delay),
                          !.retries = @ - 1]
    /\ RetryFrame

\* await sleep(delay); return retryRPC(fn, retries - 1, delay * 2)
RetrySleep ==
    /\ rpc.pc = "sleep"
    /\ rpc' = [rpc EXCEPT !.pc = "call", !.slept = Append(@, rpc.delay),
                          !.retries = @ - 1, !.delay = @ * 2]
    /\ RetryFrame

RetryRetries == 0..DefaultRetries
RetryDelays == {DefaultDelay, 2 * DefaultDelay}

Requests == BagToSet(reqs)

\* the whole deposit withdrawn at once
OwnersWithdrawAmounts == {2000}

\* the amounts a handler is started with: none for initializeVault
HandlerAmounts == {0} \cup DepositAmounts \cup OwnersWithdrawAmounts

Next ==
    \/ Tick
    \/ \E o \in Owners : InitializeVault(o)
    \/ \E o \in Owners, val \in DepositAmounts : Deposit(o, val)
    \/ \E o \in Owners, val \in WithdrawAmounts : Withdraw(o, val)
    \/ \E o \in Owners, val \in LockAmounts, d \in Durations, ok \in BOOLEAN :
           HandleLock(o, val, d, ok)
    \/ \E o \in Owners, val \in LockAmounts, d \in Durations, ok \in BOOLEAN :
           PostCreate(o, val, d, ok)
    \/ \E o \in Owners, ok \in BOOLEAN : FetchLocks(o, ok)
    \/ \E o \in Owners, l \in LockIds, f \in BOOLEAN : UnlockLoad(o, l, f)
    \/ \E q \in Requests : UnlockCheck(q)
    \/ \E q \in Requests, ok \in BOOLEAN : UnlockTransfer(q, ok)
    \/ \E q \in Requests, ok \in BOOLEAN : UnlockUpdate(q, ok)
    \/ \E o \in Owners, ok \in BOOLEAN : DeleteLocks(o, ok)
    \/ \E o \in Owners, ok \in BOOLEAN : DeleteWalletRow(o, ok)
    \/ \E o \in Owners, kind \in HandlerKinds, val \in HandlerAmounts :
           HandlerStart(o, kind, val)
    \/ HandlerPreRead
    \/ \E out \in WriteOutcomes : HandlerWrite(out)
    \/ \E ok \in BOOLEAN : HandlerPostRead(ok)
    \/ \E r \in RetryRetries, d \in RetryDelays : RetryStart(r, d)
    \/ \E out \in Outcomes : RetryCall(out)
    \/ RetrySleep

Spec == Init /\ [][Next]_vars

\* the component and the ledger alone: every lock is created through
\* handleLock and none is unlocked.  Each step is a step of Next, so a state
\* reached here is reached by the whole system.
NextClient ==
    \/ \E o \in Owners : InitializeVault(o)
    \/ \E o \in Owners, val \in DepositAmounts : Deposit(o, val)
    \/ \E o \in Owners, val \in WithdrawAmounts : Withdraw(o, val)
    \/ \E o \in Owners, val \in LockAmounts, d \in Durations, ok \in BOOLEAN :
           HandleLock(o, val, d, ok)
    \/ \E o \in Owners, ok \in BOOLEAN : FetchLocks(o, ok)

ClientSpec == Init /\ [][NextClient]_vars

\* both owners side by side: the route with a treasury that holds one reward,
\* and the vault handlers of one owner moving the whole deposit
\* (OwnersWithdrawAmounts)
InitOwners == Init /\ treasury = RewardLamports(1500, 1)

NextOwners ==
    \/ Tick
    \/ \E o \in Owners : InitializeVault(o)
    \/ \E o \in LedgerOwners, val \in DepositAmounts : Deposit(o, val)
    \/ \E o \in LedgerOwners, val \in OwnersWithdrawAmounts : Withdraw(o, val)
    \/ \E o \in Owners, val \in LockAmounts, d \in Durations, ok \in BOOLEAN :
           PostCreate(o, val, d, ok)
    \/ \E o \in Owners, l \in LockIds, f \in BOOLEAN : UnlockLoad(o, l, f)
    \/ \E q \in Requests : UnlockCheck(q)
    \/ \E q \in Requests, ok \in BOOLEAN : UnlockTransfer(q, ok)
    \/ \E q \in Requests, ok \in BOOLEAN : UnlockUpdate(q, ok)

OwnersSpec == InitOwners /\ [][NextOwners]_vars

\* the registry, the route's create and the deletion of wallets
NextDelete ==
    \/ \E o \in Owners, val \in LockAmounts, d \in Durations, ok \in BOOLEAN :
           PostCreate(o, val, d, ok)
    \/ \E o \in Owners, ok \in BOOLEAN : FetchLocks(o, ok)
    \/ \E o \in Owners, ok \in BOOLEAN : DeleteLocks(o, ok)
    \/ \E o \in Owners, ok \in BOOLEAN : DeleteWalletRow(o, ok)

DeleteSpec == Init /\ [][NextDelete]_vars

\* one owner's vault handlers followed await by await, every read of theirs
\* going through the retry wrapper
NextHandler ==
    \/ \E o \in LedgerOwners, kind \in HandlerKinds, val \in HandlerAmounts :
           HandlerStart(o, kind, val)
    \/ HandlerPreRead
    \/ \E out \in WriteOutcomes : HandlerWrite(out)
    \/ \E ok \in BOOLEAN : HandlerPostRead(ok)
    \/ \E out \in Outcomes : RetryCall(out)
    \/ RetrySleep

InitHandler == Init /\ treasury = 0

HandlerSpec == InitHandler /\ [][NextHandler]_vars

\* the registry and the route alone: no vault operation, no component.  The
\* steps left out (InitializeVault, Deposit, Withdraw, FetchLocks) change only
\* vault, balance, activeLocks and locksFetch, which no step of the route
\* reads, and HandleLock changes the registry exactly as PostCreate does, so
\* the runs of Next and of NextSettle agree on every other variable.
NextSettle ==
    \/ Tick
    \/ \E o \in Owners, val \in LockAmounts, d \in Durations, ok \in BOOLEAN :
           PostCreate(o, val, d, ok)
    \/ \E o \in Owners, l \in LockIds, f \in BOOLEAN : UnlockLoad(o, l, f)
    \/ \E q \in Requests : UnlockCheck(q)
    \/ \E q \in Requests, ok \in BOOLEAN : UnlockTransfer(q, ok)
    \/ \E q \in Requests, ok \in BOOLEAN : UnlockUpdate(q, ok)

SettleSpec == Init /\ [][NextSettle]_vars

\* the route's create alone, answering requests whose body is not the
\* component's: any amount and any duration
NextCreate ==
    \/ Tick
    \/ \E o \in Owners, val \in PostAmounts, d \in PostDurations,
          ok \in BOOLEAN : PostCreate(o, val, d, ok)

CreateSpec == Init /\ [][NextCreate]_vars

\* the registry, the list the component keeps of it and forced exits, at one
\* instant: locks of any duration are created, left by force and listed
NextList ==
    \/ \E o \in Owners, val \in LockAmounts, d \in PostDurations,
          ok \in BOOLEAN : PostCreate(o, val, d, ok)
    \/ \E o \in Owners, ok \in BOOLEAN : FetchLocks(o, ok)
    \/ \E o \in Owners, l \in LockIds : UnlockLoad(o, l, TRUE)
    \/ \E q \in Requests, ok \in BOOLEAN : UnlockUpdate(q, ok)

ListSpec == Init /\ [][NextList]_vars

\* the ledger and the component's vault handlers alone, with small amounts
\* so that the balance takes every value up to MaxBalance
NextLedger ==
    \/ \E o \in Owners : InitializeVault(o)
    \/ \E o \in LedgerOwners, val \in SmallAmounts : Deposit(o, val)
    \/ \E o \in LedgerOwners, val \in SmallAmounts : Withdraw(o, val)

LedgerSpec == Init /\ [][NextLedger]_vars

\* one call of the retry wrapper alone.  The wrapped read settles and the
\* timer of sleep fires, so a call in progress always takes its next step.
NextRetry ==
    \/ \E r \in RetryRetries, d \in RetryDelays : RetryStart(r, d)
    \/ \E out \in Outcomes : RetryCall(out)
    \/ RetrySleep

RetrySpec ==
    /\ Init
    /\ [][NextRetry]_vars
    /\ WF_vars(\E out \in Outcomes : RetryCall(out))
    /\ WF_vars(RetrySleep)

\* =========================================================== properties

\* C1: for every owner the vault balance is at least the sum of the amounts
\* of the owner's active locks.
C1_BalanceCoversActiveLocks ==
    \A o \in Owners : vault[o].balance >= TotalActive(o)

\* C2: at most one treasury transfer is ever issued for a lock.
C2_RewardPaidOnce == \A l \in LockIds : paid[l] <= 1

\* C3: a lock is inserted only when its amount is at most the owner's
\* available balance (vault balance minus active lock amounts) at that time.
C3_CreateWithinAvailable ==
    [][Len(locks') > Len(locks) =>
          LET new == locks'[Len(locks')]
          IN new.amount <= AvailableBalance(new.user_id)]_vars

\* C4: a withdrawal is applied only when it is at most the owner's available
\* balance (vault balance minus active lock amounts) at that time.
C4_WithdrawWithinAvailable ==
    [][\A o \in Owners :
          vault'[o].balance < vault[o].balance =>
              vault[o].balance - vault'[o].balance <= AvailableBalance(o)]_vars

\* C5: once the route has answered success for a lock, every later unlock
\* request of that lock by its owner is answered AlreadySettled and changes
\* neither the registry nor the treasury nor the requests in service.
C5_SettleIdempotent ==
    [][\A l \in settled, f \in BOOLEAN :
          UnlockLoad(locks[l].user_id, l, f) =>
              /\ response'.kind = "AlreadySettled"
              /\ UNCHANGED <<locks, treasury, paid, reqs>>]_vars

\* C6: a forced exit before maturity reports a reward of zero and moves no
\* funds out of the treasury; an exit at or after maturity (the instant
\* now = ends_at included) reports and transfers exactly reward_amount.
C6_ForcedExitForfeitsReward ==
    [][/\ \A o \in Owners, l \in LockIds, f \in BOOLEAN :
              (UnlockLoad(o, l, f) /\ reqs' # reqs) =>
                  LET lockData == locks[l]
                      mature   == now >= lockData.ends_at
                      due      == IF mature THEN lockData.reward_amount ELSE 0
                  IN /\ ~mature => f
                     /\ reqs' = reqs (+) SetToBag({Request(
                                    IF due > 0 THEN "balance" ELSE "update",
                                    l, mature, due)})
       /\ \A q \in Requests :
              /\ q.isTimeOver => q.reward = locks[q.lockId].reward_amount
              /\ ~q.isTimeOver => q.reward = 0 /\ q.pc = "update"
              /\ \A ok \in BOOLEAN :
                     UnlockUpdate(q, ok) => response' = Respond("ok", q.reward)
       /\ treasury' # treasury =>
              \E q \in Serving("transfer") :
                  /\ q.isTimeOver
                  /\ treasury' = treasury - locks[q.lockId].reward_amount
                  /\ paid' = [paid EXCEPT ![q.lockId] = @ + 1]
       /\ paid' # paid => treasury' # treasury]_vars

\* One lock left by force before its maturity with nothing paid, another
\* settled at the very instant of its maturity and paid once.
C6_Witness ==
    /\ response.kind = "ok"
    /\ \E i, j \in 1..Len(locks) :
           /\ locks[i].status = "claimed" /\ now < locks[i].ends_at
           /\ paid[i] = 0
           /\ locks[j].status = "claimed" /\ now = locks[j].ends_at
           /\ paid[j] = 1 /\ locks[j].reward_amount > 0

\* C7: when the treasury holds less than the payable reward the request is
\* answered TreasuryInsufficient, no transfer is issued and the lock is left
\* as it was.
C7_TreasuryInsufficient ==
    [][\A q \in Serving("balance") :
          (UnlockCheck(q) /\ treasury < q.reward) =>
              /\ response' = Respond("TreasuryInsufficient", 0)
              /\ reqs' = Finish(q)
              /\ UNCHANGED <<treasury, paid, locks>>]_vars

C7_Witness ==
    /\ response.kind = "TreasuryInsufficient"
    /\ treasury = 0
    /\ \E l \in 1..Len(locks) :
           /\ locks[l].status = "active" /\ now >= locks[l].ends_at
           /\ locks[l].reward_amount > 0 /\ paid[l] = 0

\* C8: an unlock request without force for an active lock that has not
\* matured is answered StillLocked and changes neither the lock, nor the
\* treasury, nor the owner's vault and available balance.
C8_StillLocked ==
    [][\A o \in Owners, l \in 1..Len(locks) :
          (/\ UnlockLoad(o, l, FALSE)
           /\ locks[l].user_id = o /\ locks[l].status = "active"
           /\ now < locks[l].ends_at) =>
              /\ response' = Respond("StillLocked", 0)
              /\ UNCHANGED <<locks, treasury, paid, reqs, vault>>
              /\ AvailableBalance(o)' = AvailableBalance(o)]_vars

C8_Witness ==
    /\ response.kind = "StillLocked"
    /\ now = 0
    /\ \E l \in 1..Len(locks) : locks[l].status = "active"

\* C9: a lock row appears with status active, its only later change is the
\* single step from active to claimed, and a claimed row never changes.
C9_StatusLifecycle ==
    [][/\ Len(locks') >= Len(locks)
       /\ \A i \in 1..Len(locks') :
              IF i > Len(locks)
              THEN locks'[i].status = "active"
              ELSE \/ locks'[i] = locks[i]
                   \/ /\ locks[i].status = "active"
                      /\ locks'[i] = [locks[i] EXCEPT !.status = "claimed"]]_vars

C9_Witness ==
    \E i, j \in 1..Len(locks) :
        /\ locks[i].status = "claimed" /\ i \in settled
        /\ locks[j].status = "active"

\* C10: an unlock request naming a lock id that is absent, or a lock of
\* another owner, is answered NotFound; nothing is transferred and no lock
\* changes.
C10_NotFound ==
    [][\A o \in Owners, l \in LockIds, f \in BOOLEAN :
          (/\ UnlockLoad(o, l, f)
           /\ (l \notin 1..Len(locks) \/ locks[l].user_id # o)) =>
              /\ response' = Respond("NotFound", 0)
              /\ UNCHANGED <<locks, treasury, paid, reqs>>]_vars

\* NotFound answered while every id names a row: the request named a lock
\* of another owner.
C10_Witness ==
    /\ response.kind = "NotFound"
    /\ Len(locks) = MaxLocks
    /\ \E l \in 1..Len(locks) : locks[l].status = "active"

\* C11: a request that is answered with an error has inserted no lock,
\* changed no lock and moved nothing out of the treasury.
C11_NoPartialEffect ==
    [][(/\ response'.kind \in ErrorKinds
        /\ \/ response' # response
           \/ BagCardinality(reqs') < BagCardinality(reqs)) =>
           UNCHANGED <<locks, treasury, paid>>]_vars

C13_StoredLocksValid ==
    \A i \in 1..Len(locks) :
        /\ locks[i].amount > 0
        /\ locks[i].duration_hours > 0
        /\ locks[i].ends_at > locks[i].ends_at - locks[i].duration_hours

\* C14: the list fetchLocks stores holds exactly the owner's locks whose
\* status is active, each once, in ascending order of ends_at.
C14_ListActiveLocks ==
    [][\A o \in Owners :
          FetchLocks(o, TRUE) =>
              LET data == activeLocks'[o]
                  ids  == {i \in 1..Len(locks) :
                              /\ locks[i].user_id = o
                              /\ locks[i].status = "active"}
              IN /\ {data[k].id : k \in 1..Len(data)} = ids
                 /\ Len(data) = Cardinality(ids)
                 /\ \A k \in 1..Len(data) :
                        /\ data[k].amount = locks[data[k].id].amount
                        /\ data[k].ends_at = locks[data[k].id].ends_at
                 /\ \A j, k \in 1..Len(data) :
                        j < k => data[j].ends_at <= data[k].ends_at]_vars

\* the owner's list holds two locks, and the lock inserted last, which ends
\* sooner, comes first
C14_Witness ==
    \E o \in Owners :
        /\ ~locksFetch[o]
        /\ Len(activeLocks[o]) = 2
        /\ activeLocks[o][1].id = 2
        /\ activeLocks[o][1].ends_at < activeLocks[o][2].ends_at

\* C15: initialize on an owner whose vault exists changes nothing; otherwise
\* it creates the owner's vault and reward box together, both with balance 0,
\* and touches no other owner; no state holds one of the two accounts alone,
\* and an account once created stays.
C15_InitializeOnce ==
    [][\A o \in Owners :
          /\ vault'[o].exists <=> rewardBox'[o].exists
          /\ vault[o].exists => vault'[o].exists
          /\ InitializeVault(o) =>
                 /\ \A p \in Owners \ {o} :
                        vault'[p] = vault[p] /\ rewardBox'[p] = rewardBox[p]
                 /\ IF vault[o].exists
                    THEN UNCHANGED <<vault, rewardBox, balance>>
                    ELSE /\ vault'[o] = [exists |-> TRUE, balance |-> 0]
                         /\ rewardBox'[o] = [exists |-> TRUE, balance |-> 0]]_vars

\* both accounts of an owner exist, and the vault has since received funds
C15_Witness ==
    \E o \in Owners :
        /\ vault[o].exists /\ rewardBox[o].exists
        /\ vault[o].balance > 0
        /\ rewardBox[o].balance = 0

\* C16: a deposit raises the vault balance by exactly its amount (from 0 to
\* the amount on a fresh vault), the reward box balance never decreases, and
\* the reward box changes only in a step that changes the vault balance.
C16_DepositExact ==
    [][\A o \in Owners :
          /\ \A val \in SmallAmounts :
                 Deposit(o, val) =>
                     /\ vault'[o].balance = vault[o].balance + val
                     /\ vault[o].balance = 0 => vault'[o].balance = val
          /\ rewardBox'[o].balance >= rewardBox[o].balance
          /\ rewardBox'[o].balance # rewardBox[o].balance =>
                 vault'[o].balance # vault[o].balance]_vars

\* a second deposit has been made, and it accrued points
C16_Witness ==
    \E o \in Owners :
        /\ vault[o].balance = 8
        /\ rewardBox[o].balance = MaxAccrual

\* C17: the tier is decided by the vault balance alone: balance 0 selects
\* the default (Sprout) tier, a balance above 0 and below 5 SOL the growing
\* tier, a balance of 5 SOL or more the legendary tier.  The label shown
\* always is that tier, and a step rewrites the token's uri to nothing else.
C17_TierByBalance ==
    [][\A o \in Owners :
          LET b == vault'[o].balance
              tier == CASE b = 0 -> <<"default", "Sprout">>
                        [] b > 0 /\ b < 5 -> <<"growing", "Growing">>
                        [] b >= 5 -> <<"legendary", "Legendary">>
          IN /\ GifData(o)' = tier[2]
             /\ nftUri'[o] \in {nftUri[o], tier[1]}]_vars

\* the balance stands exactly at the threshold and the token is legendary
C17_Witness ==
    \E o \in Owners :
        /\ vault[o].balance = 5
        /\ nftUri[o] = "legendary"
        /\ GifData(o) = "Legendary"

\* C19: retryRPC invokes the read again only after a failure whose text
\* holds 429; any other failure is thrown to the caller at once, with no
\* sleep and no further invocation.
C19_RetryOnlyOn429 ==
    [][/\ rpc'.calls > rpc.calls /\ rpc.calls > 0 =>
              rpc.errors[Len(rpc.errors)] = "429"
       /\ rpc'.slept # rpc.slept => rpc.errors[Len(rpc.errors)] = "429"
       /\ (/\ Len(rpc'.errors) > Len(rpc.errors)
           /\ rpc'.errors[Len(rpc'.errors)] = "other") =>
              /\ rpc'.pc = "thrown"
              /\ rpc'.calls = rpc.calls + 1
              /\ rpc'.slept = rpc.slept
       /\ rpc.pc = "thrown" => rpc' = rpc]_vars

\* a rate-limited attempt was retried and the retry failed otherwise
C19_Witness ==
    /\ rpc.pc = "thrown"
    /\ rpc.calls = 2
    /\ rpc.errors = <<"429", "other">>
    /\ Len(rpc.slept) = 1

\* C20: retryRPC terminates.  It invokes the read at most 1 + retries times,
\* the delays it waits start at delay and double, under persistent rate
\* limiting it throws the last failure after 1 + retries invocations, and
\* once an attempt has succeeded or the call has thrown nothing more happens.
C20_RetryTerminates ==
    /\ [](/\ rpc.calls <= 1 + rpc.retries0
          /\ Len(rpc.slept) <= rpc.retries0
          /\ \A k \in 1..Len(rpc.slept) :
                 rpc.slept[k] = IF k = 1 THEN rpc.delay0
                                ELSE 2 * rpc.slept[k - 1]
          /\ (/\ rpc.pc = "thrown"
              /\ rpc.errors[Len(rpc.errors)] = "429") =>
                 /\ rpc.calls = 1 + rpc.retries0
                 /\ Len(rpc.slept) = rpc.retries0
          /\ rpc.pc = "returned" =>
                 \A k \in 1..Len(rpc.errors) : rpc.errors[k] = "429")
    /\ [][rpc.pc \in {"returned", "thrown"} => rpc' = rpc]_vars
    /\ (rpc.pc \in {"call", "sleep"} ~> rpc.pc \in {"returned", "thrown"})

\* the defaults under persistent rate limiting: four invocations, three waits
C20_Witness ==
    /\ rpc.pc = "thrown"
    /\ rpc.retries0 = DefaultRetries
    /\ rpc.calls = 4
    /\ rpc.slept = <<1000, 2000, 4000>>
    /\ rpc.errors = <<"429", "429", "429", "429">>

\* C23: when an unlock request is answered with success, the lock it names
\* has status claimed at the moment of the answer.
C23_UnlockSuccessClaimed ==
    [][\A q \in Requests, ok \in BOOLEAN :
           UnlockUpdate(q, ok) => locks'[q.lockId].status = "claimed"]_vars

\* C24: the amount, the end time and the reward_amount of a lock are those it
\* was created with: no step changes them in a stored row, and a transfer out
\* of the treasury is made for a matured lock and moves exactly the
\* reward_amount stored with that lock.
C24_LockTermsFixed ==
    [][/\ \A i \in 1..Len(locks) :
              /\ i <= Len(locks')
              /\ locks'[i].user_id = locks[i].user_id
              /\ locks'[i].amount = locks[i].amount
              /\ locks'[i].duration_hours = locks[i].duration_hours
              /\ locks'[i].ends_at = locks[i].ends_at
              /\ locks'[i].reward_amount = locks[i].reward_amount
       /\ \A q \in Requests, confirmed \in BOOLEAN :
              (UnlockTransfer(q, confirmed) /\ treasury' # treasury) =>
                  /\ IsTimeOver(now, locks[q.lockId])
                  /\ treasury - treasury' = locks[q.lockId].reward_amount
                  /\ locks[q.lockId].reward_amount =
                         RewardLamports(locks[q.lockId].amount,
                                        locks[q.lockId].duration_hours)]_vars

\* a matured lock has been settled and paid while another lock was created
\* after it: its row still carries the terms it was created with
C24_Witness ==
    \E l \in 1..Len(locks) :
        /\ Len(locks) > l
        /\ locks[l].status = "claimed"
        /\ paid[l] = 1
        /\ now >= locks[l].ends_at
        /\ response = Respond("ok", locks[l].reward_amount)
        /\ locks[l].reward_amount > 0

\* C30: a request that pays a positive reward reaches the status update only
\* once a transfer for its lock has been applied and confirmed, and a lock
\* turns from active to claimed only in the update step of such a request or
\* of a request that pays nothing; the update step itself moves no funds.
C30_ClaimedAfterTransfer ==
    /\ [](\A q \in Requests :
              (q.pc = "update" /\ q.reward > 0) => paid[q.lockId] >= 1)
    /\ [][\A l \in 1..Len(locks) :
              (locks[l].status = "active" /\ locks'[l].status = "claimed") =>
                  /\ \E q \in Serving("update") :
                         /\ q.lockId = l
                         /\ UnlockUpdate(q, TRUE)
                         /\ q.reward > 0 => paid[l] >= 1
                  /\ UNCHANGED <<treasury, paid>>]_vars

\* the state between the two writes: the reward has left the treasury, the
\* transfer is confirmed, and the row still says active
C30_Witness ==
    \E q \in Serving("update") :
        /\ q.reward > 0
        /\ paid[q.lockId] = 1
        /\ locks[q.lockId].status = "active"
        /\ treasury + q.reward \in TreasuryFunds

\* C26: creating and settling locks never changes a vault balance or an
\* accrual balance; availableBalance rises through a lock only when the lock
\* turns from active to claimed, and then by exactly its amount; and a forced
\* exit answered with success has returned the whole principal of its lock
\* to availableBalance while nothing was paid.
C26_PrincipalRejoins ==
    [][/\ UNCHANGED <<vault, rewardBox>>
       /\ \A o \in Owners :
              AvailableBalance(o)' > AvailableBalance(o) =>
                  \E l \in ActiveIds(locks, o) :
                      /\ locks'[l].status = "claimed"
                      /\ AvailableBalance(o)' =
                             AvailableBalance(o) + locks[l].amount
       /\ \A q \in Requests, ok \in BOOLEAN :
              (/\ UnlockUpdate(q, ok)
               /\ q.reward = 0
               /\ locks[q.lockId].status = "active") =>
                  /\ AvailableBalance(locks[q.lockId].user_id)' =
                         AvailableBalance(locks[q.lockId].user_id)
                             + locks[q.lockId].amount
                  /\ UNCHANGED <<treasury, paid>>]_vars

\* C25: whenever a create or a withdraw passes its validation, the available
\* balance it was validated against is the one the stores hold at that
\* moment: the cached vault balance equals the vault's balance and the cached
\* locked total equals the total of the owner's active rows.
C25_ValidatedAgainstCurrent ==
    [][\A o \in Owners :
           (\/ \E val \in LockAmounts, d \in Durations, ok \in BOOLEAN :
                   HandleLock(o, val, d, ok)
            \/ \E val \in WithdrawAmounts : Withdraw(o, val)) =>
               /\ SolVaultBalance(o) = vault[o].balance
               /\ TotalLockedAmount(o) = TotalActive(o)]_vars

\* C29: an owner's active locks come to exceed the vault balance only through
\* a create or a withdraw that passed validation against a lock list older
\* than the registry: the step is accepted for the cached available balance
\* although its amount exceeds what the stores hold, because a row inserted
\* by an earlier accepted request is not yet in the list.
C29_OvercommitByStaleRead ==
    [][\A o \in Owners :
           (AvailableBalance(o) >= 0 /\ AvailableBalance(o)' < 0) =>
               /\ \E val \in LockAmounts \cup WithdrawAmounts :
                      /\ \/ \E d \in Durations : HandleLock(o, val, d, TRUE)
                         \/ Withdraw(o, val)
                      /\ val <= AvailableToWithdraw(o)
                      /\ val > AvailableBalance(o)
               /\ SolVaultBalance(o) = vault[o].balance
               /\ TotalLockedAmount(o) < TotalActive(o)]_vars

\* two creates of 1500 were both accepted against the same available balance
\* of 2000 and both applied: the owner's active locks total 3000
C29_Witness ==
    \E o \in Owners :
        /\ vault[o].balance = 2000
        /\ Cardinality(ActiveIds(locks, o)) = 2
        /\ TotalActive(o) > vault[o].balance
        /\ activeLocks[o] = <<>>

\* a step taken on behalf of the owner o: one of o's vault handlers, a
\* request whose body names o, or the route serving a request on a lock of o
OwnerStep(o) ==
    \/ InitializeVault(o)
    \/ \E val \in DepositAmounts : Deposit(o, val)
    \/ \E val \in OwnersWithdrawAmounts : Withdraw(o, val)
    \/ \E val \in LockAmounts, d \in Durations, ok \in BOOLEAN :
           PostCreate(o, val, d, ok)
    \/ \E l \in LockIds, f \in BOOLEAN : UnlockLoad(o, l, f)
    \/ \E q \in Requests, ok \in BOOLEAN :
           /\ locks[q.lockId].user_id = o
           /\ \/ UnlockCheck(q)
              \/ UnlockTransfer(q, ok)
              \/ UnlockUpdate(q, ok)

\* C21 (as stated): an operation issued for one owner changes nothing that
\* belongs to another owner, and its outcome does not depend on the other
\* owners' operations: the treasury check of a settle comes out as it would
\* had no other owner been paid.
C21_OwnersIndependent ==
    [][/\ \A b \in Owners :
              OwnerState(b)' # OwnerState(b) =>
                  \A o \in Owners \ {b} : ~OwnerStep(o)
       /\ \A q \in Requests :
              UnlockCheck(q) =>
                  (TreasuryShort(treasury, q.reward) <=>
                   TreasuryShort(
                       treasury + PaidToOthers(locks[q.lockId].user_id,
                                               1..Len(locks)),
                       q.reward))]_vars

\* C21 (amended): an operation issued for one owner changes neither the
\* vault account, nor the reward box, nor any lock row of another owner.
\* What the owners do share is the treasury, out of which every reward is
\* paid.
C21_OwnersShareOnlyTreasury ==
    [][\A b \in Owners :
           OwnerState(b)' # OwnerState(b) =>
               \A o \in Owners \ {b} : ~OwnerStep(o)]_vars

\* one owner's matured settle is refused for want of funds after the other
\* owner was paid out of a treasury that covered either reward, while both
\* hold a lock and the first owner's vault holds a deposit
C21_Witness ==
    \E a \in 1..Len(locks), b \in 1..Len(locks) :
        /\ locks[a].user_id # locks[b].user_id
        /\ vault[locks[a].user_id].balance > 0
        /\ locks[a].status = "active"
        /\ now >= locks[a].ends_at
        /\ paid[a] = 0
        /\ paid[b] = 1
        /\ response.kind = "TreasuryInsufficient"
        /\ treasury < locks[a].reward_amount
        /\ treasury + locks[b].reward_amount >= locks[a].reward_amount

\* C22: the deletion of a wallet removes every lock of the owner before the
\* wallet record: whenever the record is gone no row of the owner is left in
\* box_locks; and a row is removed only by that deletion.
C22_LocksClearedBeforeWallet ==
    /\ [](\A o \in Owners :
              wallet[o] = "deleted" =>
                  \A i \in 1..Len(locks) :
                      locks[i].user_id = o => locks[i].status = "deleted")
    /\ [][\A i \in 1..Len(locks) :
              (locks[i].status # "deleted" /\ locks'[i].status = "deleted") =>
                  \E ok \in BOOLEAN : DeleteLocks(locks[i].user_id, ok)]_vars

C28_NoFailureReportForAppliedWrite ==
    ~(/\ handler.kind \in {"deposit", "withdraw"}
      /\ handler.pc = "done"
      /\ handler.report = "error"
      /\ handler.applied)

====
